---- MODULE Spec2Model ----
(***************************************************************************)
(* Model of src/main.py: the QR-code PDF generator.  One run of main():    *)
(* parse_arguments, then generate_pdf's two nested counted loops (pages,   *)
(* rows), the canvas calls it makes, and main's exception handler.         *)
(* Lengths are in points, as in LAYOUT; the text position, which depends   *)
(* on a font metric, is kept in hundredths of a point.                     *)
(***************************************************************************)
EXTENDS Integers, Sequences, FiniteSets

\* ---------------------------------------------------------------- bounds
MaxBelowZero == 1
MaxPages == 3
LargeNumPages == 101
MaxStartPage == 2
NumHex == 2

NumPagesInputs == (0 - MaxBelowZero)..MaxPages
LargeInputs == NumPagesInputs \cup {LargeNumPages}
StartPageInputs == (0 - MaxBelowZero)..MaxStartPage
HexValues == 1..NumHex

\* ------------------------------------------------------ program constants
\* variant: rows spaced wider than the page allows
LAYOUTWideSpacing ==
  [ page_width |-> 612, page_height |-> 792,
    margin_top |-> 36, margin_bottom |-> 36,
    margin_left |-> 72, margin_right |-> 36,
    qr_size |-> 60, box_width |-> 504, box_height |-> 72,
    qr_padding |-> 6, row_spacing |-> 80, codes_per_page |-> 10 ]

LAYOUT ==
  [ page_width |-> 612, page_height |-> 792,
    margin_top |-> 36, margin_bottom |-> 36,
    margin_left |-> 72, margin_right |-> 36,
    qr_size |-> 60, box_width |-> 504, box_height |-> 72,
    qr_padding |-> 6, row_spacing |-> 72, codes_per_page |-> 10 ]

WarnPages == 100
FontSize == 10
LabelDrop == 20
HighResFactor == 4
ParserErrorExit == 2
ErrorExit == 1

VARIABLES
  argv,          \* the command line: -n, -s and -d as given
  pc,            \* position of the single thread of control
  num_pages, start_page, double_sided,   \* args
  warned,        \* the "may take a while" warning was printed
  exitCode,      \* -1 while running, else the process exit status
  canvas,        \* "none" | "open" | "saved"
  page_num, row, \* loop variables (-1 before the first iteration)
  margin_left, margin_right, box_width,
  uuid_str, qr_img,
  x_box, y_box, x_qr, y_qr,
  cur,           \* drawing operations on the canvas' current page
  doc,           \* pages finalized by showPage, in order
  genCalls,      \* calls of generate_uuid4_without_dashes so far
  encCalls,      \* calls of create_qr_code so far
  saveCalls      \* calls of c.save() so far

vars == << argv, pc, num_pages, start_page, double_sided, warned, exitCode, canvas,
           page_num, row, margin_left, margin_right, box_width, uuid_str,
           qr_img, x_box, y_box, x_qr, y_qr, cur, doc, genCalls, encCalls,
           saveCalls >>

args == << argv, num_pages, start_page, double_sided, warned >>
pageLocals == << margin_left, margin_right, box_width >>
rowLocals == << uuid_str, qr_img, x_box, y_box, x_qr, y_qr >>

NoUuid == [call |-> 0, hex |-> 0]
NoImg == [data |-> NoUuid, px |-> 0]

\* ------------------------------------------------------------ pure helpers

\* f"Page {actual_page_num}": the decimal rendering of a positive integer
DigitChar(d) == << "0", "1", "2", "3", "4", "5", "6", "7", "8", "9" >>[d + 1]

RECURSIVE Digits(_)
Digits(n) == IF n < 10 THEN << DigitChar(n) >>
             ELSE Digits(n \div 10) \o << DigitChar(n % 10) >>

PageText(n) == << "P", "a", "g", "e", " " >> \o Digits(n)

\* Helvetica advance widths, in 1/1000 of the font size
CharWidth(ch) == CASE ch = "P" -> 667
                   [] ch = " " -> 278
                   [] OTHER    -> 556

RECURSIVE SumWidths(_)
SumWidths(t) == IF t = << >> THEN 0 ELSE CharWidth(Head(t)) + SumWidths(Tail(t))

\* c.stringWidth(text, "Helvetica", size), in hundredths of a point
StringWidth100(t, size) == (SumWidths(t) * size) \div 10

\* variant: the parity test inverted
PageMarginsOddSwap(ds, actual) ==
  IF ds /\ actual % 2 = 1
  THEN << LAYOUT.margin_right, LAYOUT.margin_left >>
  ELSE << LAYOUT.margin_left, LAYOUT.margin_right >>

\* the margin pair chosen at the top of the page loop
PageMargins(ds, actual) ==
  IF ds /\ actual % 2 = 0
  THEN << LAYOUT.margin_right, LAYOUT.margin_left >>
  ELSE << LAYOUT.margin_left, LAYOUT.margin_right >>

\* variant: the box height is not subtracted
YBoxNoHeight(r) == LAYOUT.page_height - LAYOUT.margin_top
                   - (r * LAYOUT.row_spacing)

YBox(r) == LAYOUT.page_height - LAYOUT.margin_top
           - (r * LAYOUT.row_spacing) - LAYOUT.box_height

\* variant: no alternation
XQrAlwaysLeft(r, xb, bw) == xb + LAYOUT.qr_padding

XQr(r, xb, bw) ==
  IF r % 2 = 0
  THEN xb + LAYOUT.qr_padding
  ELSE xb + bw - LAYOUT.qr_size - LAYOUT.qr_padding

\* ------------------------------------------------------------------- Init
InitWith(counts) ==
  /\ argv \in [n : counts, s : StartPageInputs, d : BOOLEAN]
  /\ pc = "parse"
  /\ num_pages = 0 /\ start_page = 0 /\ double_sided = FALSE /\ warned = FALSE
  /\ exitCode = -1
  /\ canvas = "none"
  /\ page_num = -1 /\ row = -1
  /\ margin_left = 0 /\ margin_right = 0 /\ box_width = 0
  /\ uuid_str = NoUuid /\ qr_img = NoImg
  /\ x_box = 0 /\ y_box = 0 /\ x_qr = 0 /\ y_qr = 0
  /\ cur = << >> /\ doc = << >>
  /\ genCalls = 0 /\ encCalls = 0 /\ saveCalls = 0

Init == InitWith(NumPagesInputs)

\* the same program, started also with a page count above the warning level
InitLarge == InitWith(LargeInputs)

\* ---------------------------------------------------------------- actions

\* variant: the start page is not validated
ParseArgumentsNoStartCheck ==
  /\ pc = "parse"
  /\ num_pages' = argv.n /\ start_page' = argv.s /\ double_sided' = argv.d
  /\ IF argv.n < 1
     THEN warned' = FALSE /\ pc' = "exit" /\ exitCode' = ParserErrorExit
     ELSE warned' = (argv.n > WarnPages) /\ pc' = "canvas"
          /\ exitCode' = exitCode
  /\ UNCHANGED << argv, canvas, page_num, row, pageLocals, rowLocals, cur,
                  doc, genCalls, encCalls, saveCalls >>

\* parse_arguments: the three checks, in the order of the code
ParseArguments ==
  /\ pc = "parse"
  /\ LET n == argv.n
         s == argv.s
         d == argv.d
     IN
       /\ num_pages' = n /\ start_page' = s /\ double_sided' = d
       /\ IF n < 1
          THEN /\ warned' = FALSE
               /\ pc' = "exit" /\ exitCode' = ParserErrorExit
          ELSE /\ warned' = (n > WarnPages)
               /\ IF s < 1
                  THEN pc' = "exit" /\ exitCode' = ParserErrorExit
                  ELSE pc' = "canvas" /\ exitCode' = exitCode
  /\ UNCHANGED << argv, canvas, page_num, row, pageLocals, rowLocals, cur,
                  doc, genCalls, encCalls, saveCalls >>

\* main's set-up and the head of generate_pdf: the canvas is created
NewCanvas ==
  /\ pc = "canvas"
  /\ canvas' = "open"
  /\ pc' = "page"
  /\ UNCHANGED << args, exitCode, page_num, row, pageLocals, rowLocals, cur,
                  doc, genCalls, encCalls, saveCalls >>

\* for page_num in range(num_pages): next iteration, margins, box_width
BeginPage ==
  /\ pc = "page"
  /\ page_num + 1 < num_pages
  /\ page_num' = page_num + 1
  /\ LET m == PageMargins(double_sided, start_page + page_num')
     IN /\ margin_left' = m[1]
        /\ margin_right' = m[2]
        /\ box_width' = LAYOUT.page_width - m[1] - m[2]
  /\ row' = -1
  /\ pc' = "row"
  /\ UNCHANGED << args, exitCode, canvas, rowLocals, cur, doc, genCalls,
                  encCalls, saveCalls >>

\* variant: the identifier is generated once per page and reused
GenerateUuidPerPage ==
  /\ pc = "row"
  /\ row + 1 < LAYOUT.codes_per_page
  /\ row' = row + 1
  /\ IF row' = 0
     THEN /\ genCalls' = genCalls + 1
          /\ \E h \in HexValues : uuid_str' = [call |-> genCalls', hex |-> h]
     ELSE UNCHANGED << genCalls, uuid_str >>
  /\ pc' = "encode"
  /\ UNCHANGED << args, exitCode, canvas, page_num, pageLocals, qr_img, x_box,
                  y_box, x_qr, y_qr, cur, doc, encCalls, saveCalls >>

\* for row in range(codes_per_page): next iteration, a fresh identifier
GenerateUuid ==
  /\ pc = "row"
  /\ row + 1 < LAYOUT.codes_per_page
  /\ row' = row + 1
  /\ genCalls' = genCalls + 1
  /\ \E h \in HexValues : uuid_str' = [call |-> genCalls', hex |-> h]
  /\ pc' = "encode"
  /\ UNCHANGED << args, exitCode, canvas, page_num, pageLocals, qr_img, x_box,
                  y_box, x_qr, y_qr, cur, doc, encCalls, saveCalls >>

\* create_qr_code(uuid_str, size=qr_size)
CreateQrCode ==
  /\ pc = "encode"
  /\ encCalls' = encCalls + 1
  /\ qr_img' = [data |-> uuid_str, px |-> LAYOUT.qr_size * HighResFactor]
  /\ pc' = "rect"
  /\ UNCHANGED << args, exitCode, canvas, page_num, row, pageLocals, uuid_str,
                  x_box, y_box, x_qr, y_qr, cur, doc, genCalls, saveCalls >>

\* y_box, x_box and c.rect(...)
DrawRect ==
  /\ pc = "rect"
  /\ y_box' = YBox(row)
  /\ x_box' = margin_left
  /\ cur' = Append(cur, [op |-> "rect", x |-> x_box', y |-> y_box',
                         w |-> box_width, h |-> LAYOUT.box_height])
  /\ pc' = "image"
  /\ UNCHANGED << args, exitCode, canvas, page_num, row, pageLocals, uuid_str,
                  qr_img, x_qr, y_qr, doc, genCalls, encCalls, saveCalls >>

\* x_qr, y_qr and c.drawInlineImage(...)
DrawInlineImage ==
  /\ pc = "image"
  /\ x_qr' = XQr(row, x_box, box_width)
  /\ y_qr' = y_box + LAYOUT.qr_padding
  /\ cur' = Append(cur, [op |-> "image", x |-> x_qr', y |-> y_qr',
                         w |-> LAYOUT.qr_size, h |-> LAYOUT.qr_size,
                         src |-> qr_img.data.call])
  /\ pc' = "row"
  /\ UNCHANGED << args, exitCode, canvas, page_num, row, pageLocals, uuid_str,
                  qr_img, x_box, y_box, doc, genCalls, encCalls, saveCalls >>

\* variant: the label is aligned to the unswapped right margin
DrawLabelUnswapped ==
  /\ pc = "row"
  /\ ~ (row + 1 < LAYOUT.codes_per_page)
  /\ LET page_text == PageText(start_page + page_num)
         text_width100 == StringWidth100(page_text, FontSize)
     IN cur' = Append(cur,
                 [op |-> "text", text |-> page_text,
                  x100 |-> 100 * (LAYOUT.page_width - LAYOUT.margin_right)
                           - text_width100,
                  y |-> LAYOUT.margin_bottom - LabelDrop])
  /\ pc' = "showPage"
  /\ UNCHANGED << args, exitCode, canvas, page_num, row, pageLocals, rowLocals,
                  doc, genCalls, encCalls, saveCalls >>

\* after the row loop: setFont, page_text, stringWidth, drawString
DrawLabel ==
  /\ pc = "row"
  /\ ~ (row + 1 < LAYOUT.codes_per_page)
  /\ LET page_text == PageText(start_page + page_num)
         text_width100 == StringWidth100(page_text, FontSize)
     IN cur' = Append(cur,
                 [op |-> "text", text |-> page_text,
                  x100 |-> 100 * (LAYOUT.page_width - margin_right)
                           - text_width100,
                  y |-> LAYOUT.margin_bottom - LabelDrop])
  /\ pc' = "showPage"
  /\ UNCHANGED << args, exitCode, canvas, page_num, row, pageLocals, rowLocals,
                  doc, genCalls, encCalls, saveCalls >>

\* variant: the page is emitted but its content is carried over
ShowPageKeepsContent ==
  /\ pc = "showPage"
  /\ doc' = Append(doc, [index |-> page_num, ops |-> cur])
  /\ pc' = "page"
  /\ UNCHANGED << args, exitCode, canvas, page_num, row, pageLocals, rowLocals,
                  cur, genCalls, encCalls, saveCalls >>

\* c.showPage(): the current page is finalized and a blank one started
ShowPage ==
  /\ pc = "showPage"
  /\ doc' = Append(doc, [index |-> page_num, ops |-> cur])
  /\ cur' = << >>
  /\ pc' = "page"
  /\ UNCHANGED << args, exitCode, canvas, page_num, row, pageLocals, rowLocals,
                  genCalls, encCalls, saveCalls >>

\* variant: the save does not wait for the page loop to finish
SaveInsideLoop ==
  /\ pc = "page"
  /\ page_num >= 0
  /\ saveCalls' = saveCalls + 1
  /\ canvas' = "saved"
  /\ pc' = "done"
  /\ exitCode' = 0
  /\ UNCHANGED << args, page_num, row, pageLocals, rowLocals, cur, doc,
                  genCalls, encCalls >>

\* after the page loop: c.save(), the summary, and main returns
Save ==
  /\ pc = "page"
  /\ ~ (page_num + 1 < num_pages)
  /\ saveCalls' = saveCalls + 1
  /\ canvas' = "saved"
  /\ pc' = "done"
  /\ exitCode' = 0
  /\ UNCHANGED << args, page_num, row, pageLocals, rowLocals, cur, doc,
                  genCalls, encCalls >>

\* the places of generate_pdf where a library call can raise
FailPoint ==
  \/ pc \in {"canvas", "row", "encode", "rect", "image", "showPage"}
  \/ pc = "page" /\ ~ (page_num + 1 < num_pages)

\* variant: the exception is swallowed and the process ends normally
RaiseSwallowed ==
  /\ FailPoint
  /\ saveCalls' = IF pc = "page" THEN saveCalls + 1 ELSE saveCalls
  /\ pc' = "exit"
  /\ exitCode' = 0
  /\ UNCHANGED << args, canvas, page_num, row, pageLocals, rowLocals, cur,
                  doc, genCalls, encCalls >>

\* a call raises: main's except clause prints the trace and exits with 1.
\* A save that raises has been called, but leaves no saved document.
Raise ==
  /\ FailPoint
  /\ saveCalls' = IF pc = "page" THEN saveCalls + 1 ELSE saveCalls
  /\ pc' = "exit"
  /\ exitCode' = ErrorExit
  /\ UNCHANGED << args, canvas, page_num, row, pageLocals, rowLocals, cur,
                  doc, genCalls, encCalls >>

Next ==
  \/ ParseArguments
  \/ NewCanvas
  \/ BeginPage
  \/ GenerateUuid
  \/ CreateQrCode
  \/ DrawRect
  \/ DrawInlineImage
  \/ DrawLabel
  \/ ShowPage
  \/ Save
  \/ Raise

Spec == Init /\ [][Next]_vars

SpecLarge == InitLarge /\ [][Next]_vars

\* ------------------------------------------------- vocabulary of the claims

\* every page drawn so far: the finalized ones, then the one in progress
AllPages == IF page_num >= 0
            THEN doc \o << [index |-> page_num, ops |-> cur] >>
            ELSE doc

Rows == 0..(LAYOUT.codes_per_page - 1)
OpsPerPage == 2 * LAYOUT.codes_per_page + 1

EvenActual(i) == double_sided /\ (start_page + i) % 2 = 0
EffLeft(i) == IF EvenActual(i) THEN LAYOUT.margin_right ELSE LAYOUT.margin_left
EffRight(i) == IF EvenActual(i) THEN LAYOUT.margin_left ELSE LAYOUT.margin_right

\* the box and the image of row r in a page's operations, once drawn
HasBox(p, r) == 2 * r + 1 <= Len(p.ops) /\ p.ops[2 * r + 1].op = "rect"
HasImage(p, r) == 2 * r + 2 <= Len(p.ops) /\ p.ops[2 * r + 2].op = "image"
BoxOf(p, r) == p.ops[2 * r + 1]
ImageOf(p, r) == p.ops[2 * r + 2]

CountOp(ops, kind) == Cardinality({k \in 1..Len(ops) : ops[k].op = kind})

DigitValue(ch) == CHOOSE d \in 0..9 : DigitChar(d) = ch

RECURSIVE DecimalValue(_)
DecimalValue(t) ==
  IF t = << >> THEN 0
  ELSE 10 * DecimalValue(SubSeq(t, 1, Len(t) - 1)) + DigitValue(t[Len(t)])

InPage == pc \in {"row", "encode", "rect", "image", "showPage"}

\* ------------------------------------------------------------------ claims

\* C1: for every page index i and every startPage >= 1 the margins in force
\* for page i, and the left edge of every box drawn on it, are the swapped
\* pair (margin_right, margin_left) exactly when doubleSided holds and
\* startPage + i is even, and the unswapped pair in every other case.
C1_MarginsSwappedIffDoubleSidedEven ==
  page_num >= 0 =>
    LET swapped == double_sided /\ (start_page + page_num) % 2 = 0
    IN /\ (<< margin_left, margin_right >>
             = << LAYOUT.margin_right, LAYOUT.margin_left >>) <=> swapped
       /\ ~ swapped => << margin_left, margin_right >>
                         = << LAYOUT.margin_left, LAYOUT.margin_right >>
       /\ \A k \in 1..Len(cur) :
            (InPage /\ cur[k].op = "rect") => cur[k].x = margin_left

C1_Witness ==
  /\ pc = "showPage" /\ double_sided
  /\ (start_page + page_num) % 2 = 0 /\ page_num = 1
  /\ margin_left = LAYOUT.margin_right /\ margin_right = LAYOUT.margin_left
  /\ cur[1].x = LAYOUT.margin_right

\* C2: a successful run emits exactly numPages finalized pages, in
\* increasing page-index order, each holding exactly codes_per_page box
\* outlines and codes_per_page code images, one box then one image per row.
C2_PagesAndRowsComplete ==
  pc = "done" =>
    /\ Len(doc) = num_pages
    /\ \A k \in 1..Len(doc) :
         /\ doc[k].index = k - 1
         /\ CountOp(doc[k].ops, "rect") = LAYOUT.codes_per_page
         /\ CountOp(doc[k].ops, "image") = LAYOUT.codes_per_page
         /\ \A r \in Rows : HasBox(doc[k], r) /\ HasImage(doc[k], r)

C2_Witness ==
  /\ pc = "done" /\ num_pages = 2 /\ Len(doc) = 2
  /\ CountOp(doc[2].ops, "image") = 10

\* C3: every page carries exactly one page-number label, drawn after all its
\* rows and before the page is finalized; it reads "Page " followed by
\* startPage + pageIndex and sits at x = pageWidth - rightMargin -
\* textWidth(label), y = margin_bottom - 20, rightMargin being the effective
\* right margin of that page.
C3_PageLabel ==
  /\ \A k \in 1..Len(doc) :
       LET p == doc[k]
           lbl == p.ops[OpsPerPage]
       IN /\ Len(p.ops) = OpsPerPage
          /\ CountOp(p.ops, "text") = 1
          /\ lbl.op = "text"
          /\ SubSeq(lbl.text, 1, 5) = << "P", "a", "g", "e", " " >>
          /\ DecimalValue(SubSeq(lbl.text, 6, Len(lbl.text)))
               = start_page + p.index
          /\ lbl.x100 = 100 * (LAYOUT.page_width - EffRight(p.index))
                        - StringWidth100(lbl.text, FontSize)
          /\ lbl.y = LAYOUT.margin_bottom - 20
  /\ \A k \in 1..Len(cur) :
       cur[k].op = "text" => (k = OpsPerPage /\ pc \in {"showPage", "exit"})

C3_Witness ==
  /\ Len(doc) = 2 /\ double_sided /\ start_page = 1
  /\ doc[2].ops[OpsPerPage].text = << "P", "a", "g", "e", " ", "2" >>
  /\ doc[2].ops[OpsPerPage].x100 = 50831
  /\ doc[1].ops[OpsPerPage].x100 = 54431

\* C4: on the success path the document is saved exactly once, only after
\* all numPages pages have been finalized, and nothing is drawn after it.
C4_SavedOnceAtEnd ==
  /\ [](/\ saveCalls <= 1
        /\ pc = "done" => (canvas = "saved" /\ saveCalls = 1)
        /\ canvas = "saved" => /\ Len(doc) = num_pages
                               /\ cur = << >>
                               /\ pc = "done")
  /\ [][canvas = "saved" => (doc' = doc /\ cur' = cur
                             /\ saveCalls' = saveCalls)]_vars

C4_Witness ==
  pc = "done" /\ canvas = "saved" /\ saveCalls = 1 /\ Len(doc) = 2

\* C5: a failing generation step aborts the run there: nothing more is
\* rendered or retried, a failure before the save leaves the document
\* unsaved, and the exit code is 1; a run without failure exits with 0.
C5_AbortOnFirstFailure ==
  /\ [](/\ (pc = "exit" /\ num_pages >= 1 /\ start_page >= 1)
             => (exitCode = 1 /\ canvas # "saved")
        /\ exitCode = 1 => pc = "exit"
        /\ pc = "done" => exitCode = 0
        /\ pc \notin {"done", "exit"} => exitCode = -1)
  /\ [][pc = "exit" => FALSE]_vars
  /\ [][exitCode' = 1 =>
          (doc' = doc /\ cur' = cur /\ canvas' = canvas
           /\ genCalls' = genCalls /\ encCalls' = encCalls)]_vars

C5_Witness ==
  /\ pc = "exit" /\ exitCode = 1 /\ num_pages = 2
  /\ Len(doc) = 1 /\ Len(cur) = 3 /\ canvas = "open" /\ saveCalls = 0

\* C6: a page count < 1 or a start page < 1 ends the process with a nonzero
\* code before any document is created, page rendered or save made; a page
\* count above 100 only warns, and with a valid start page the generation
\* goes through all requested pages.
C6_ArgumentValidation ==
  /\ (pc # "parse" /\ (num_pages < 1 \/ start_page < 1)) =>
       /\ pc = "exit" /\ exitCode \notin {-1, 0}
       /\ canvas = "none" /\ doc = << >> /\ cur = << >>
       /\ genCalls = 0 /\ encCalls = 0 /\ saveCalls = 0
  /\ (pc # "parse" /\ num_pages > 100) => warned
  /\ (pc # "parse" /\ num_pages > 100 /\ start_page >= 1) =>
       /\ exitCode # ParserErrorExit
       /\ pc = "done" => (Len(doc) = num_pages /\ exitCode = 0)
  /\ (pc # "parse" /\ num_pages >= 1 /\ num_pages <= 100) => ~ warned

C6_Witness ==
  /\ pc = "exit" /\ num_pages > 100 /\ start_page < 1 /\ warned
  /\ exitCode = 2 /\ canvas = "none"

\* C7: the box of row r has bottom edge y = page_height - margin_top -
\* r*row_spacing - box_height and left edge at the effective left margin;
\* y strictly decreases by row_spacing from each row to the next, and no two
\* boxes of a page overlap in their interiors.
C7_RowRectangles ==
  \A k \in 1..Len(AllPages) :
    LET p == AllPages[k]
    IN \A r \in Rows :
         (2 * r + 1 <= Len(p.ops)) =>
           /\ HasBox(p, r)
           /\ BoxOf(p, r).y = 792 - 36 - r * 72 - 72
           /\ BoxOf(p, r).h = 72
           /\ BoxOf(p, r).x = EffLeft(p.index)
           /\ r > 0 => /\ BoxOf(p, r).y < BoxOf(p, r - 1).y
                       /\ BoxOf(p, r - 1).y - BoxOf(p, r).y
                            = LAYOUT.row_spacing
           /\ \A q \in 0..(r - 1) :
                \/ BoxOf(p, r).y + BoxOf(p, r).h <= BoxOf(p, q).y
                \/ BoxOf(p, q).y + BoxOf(p, q).h <= BoxOf(p, r).y

C7_Witness ==
  /\ Len(doc) = 2 /\ double_sided /\ start_page = 2
  /\ BoxOf(doc[1], 9).y = 36 /\ BoxOf(doc[1], 9).x = 36
  /\ BoxOf(doc[2], 0).y = 684 /\ BoxOf(doc[2], 0).x = 72

\* C8: the image of row r is at x = box.x + qr_padding for even r and at
\* x = box.x + box.width - qr_size - qr_padding for odd r, at y = box.y +
\* qr_padding in both cases; consecutive rows alternate between the two
\* positions, starting with the left one on row 0 of every page.
C8_CodePositionAlternates ==
  \A k \in 1..Len(AllPages) :
    LET p == AllPages[k]
        left(r) == BoxOf(p, r).x + LAYOUT.qr_padding
        right(r) == BoxOf(p, r).x + BoxOf(p, r).w
                    - LAYOUT.qr_size - LAYOUT.qr_padding
    IN \A r \in Rows :
         (2 * r + 2 <= Len(p.ops)) =>
           /\ HasImage(p, r)
           /\ left(r) # right(r)
           /\ ImageOf(p, r).x = IF r % 2 = 0 THEN left(r) ELSE right(r)
           /\ ImageOf(p, r).y = BoxOf(p, r).y + LAYOUT.qr_padding
           /\ r = 0 => ImageOf(p, r).x = left(r)
           /\ r > 0 => ((ImageOf(p, r).x = left(r))
                          <=> (ImageOf(p, r - 1).x = right(r - 1)))

C8_Witness ==
  /\ Len(doc) = 1 /\ page_num = 1 /\ Len(cur) = 4
  /\ ImageOf(doc[1], 0).x = BoxOf(doc[1], 0).x + 6
  /\ ImageOf(doc[1], 1).x = BoxOf(doc[1], 1).x + 438
  /\ cur[2].x = cur[1].x + 6 /\ cur[4].x = cur[3].x + 438

\* C9: the identifier generator is called exactly once per row (numPages *
\* codes_per_page calls in a successful run), each call precedes the
\* encoding of that row's code, and the identifier of a call is encoded
\* into the image of the row it was generated for and of no other row.
C9_OneIdentifierPerRow ==
  /\ [](/\ pc = "done" => /\ genCalls = num_pages * LAYOUT.codes_per_page
                          /\ encCalls = genCalls
        /\ encCalls <= genCalls /\ genCalls <= encCalls + 1
        /\ (InPage /\ row >= 0) =>
             uuid_str.call = page_num * LAYOUT.codes_per_page + row + 1
        /\ pc = "encode" => (genCalls = encCalls + 1
                             /\ uuid_str.call = genCalls)
        /\ pc \in {"rect", "image"} => qr_img.data = uuid_str
        /\ \A k \in 1..Len(AllPages) :
             LET p == AllPages[k]
             IN \A r \in Rows :
                  (2 * r + 2 <= Len(p.ops)) =>
                    /\ HasImage(p, r)
                    /\ ImageOf(p, r).src
                         = p.index * LAYOUT.codes_per_page + r + 1)
  /\ [][encCalls' # encCalls =>
          (encCalls' = encCalls + 1 /\ qr_img'.data = uuid_str
           /\ uuid_str.call = encCalls')]_vars
  /\ [][genCalls' # genCalls =>
          (genCalls' = genCalls + 1 /\ uuid_str'.call = genCalls'
           /\ row' = row + 1 /\ encCalls = genCalls)]_vars

C9_Witness ==
  /\ pc = "done" /\ num_pages = 2 /\ genCalls = 20 /\ encCalls = 20
  /\ ImageOf(doc[2], 9).src = 20 /\ ImageOf(doc[1], 0).src = 1

\* C10: with the default layout, for every start page, both values of
\* doubleSided, every page and row: the box is box_width (504) wide and lies
\* within the page's effective left/right margins and margin_top /
\* margin_bottom, and the qr_size x qr_size image lies within its box.
C10_BoxesAndCodesContained ==
  \A k \in 1..Len(AllPages) :
    LET p == AllPages[k]
    IN \A r \in Rows :
         /\ (2 * r + 1 <= Len(p.ops)) =>
              LET b == BoxOf(p, r)
              IN /\ b.w = LAYOUT.box_width /\ b.w = 504
                 /\ b.x >= EffLeft(p.index)
                 /\ b.x + b.w <= LAYOUT.page_width - EffRight(p.index)
                 /\ b.y >= LAYOUT.margin_bottom
                 /\ b.y + b.h <= LAYOUT.page_height - LAYOUT.margin_top
         /\ (2 * r + 2 <= Len(p.ops)) =>
              LET b == BoxOf(p, r)
                  i == ImageOf(p, r)
              IN /\ i.w = LAYOUT.qr_size /\ i.h = LAYOUT.qr_size
                 /\ i.x >= b.x /\ i.x + i.w <= b.x + b.w
                 /\ i.y >= b.y /\ i.y + i.h <= b.y + b.h

C10_Witness ==
  /\ Len(doc) = 2 /\ double_sided /\ start_page = 1
  /\ BoxOf(doc[2], 9).y = LAYOUT.margin_bottom
  /\ BoxOf(doc[2], 9).x + 504 = LAYOUT.page_width - LAYOUT.margin_left
  /\ ImageOf(doc[2], 9).x + 60 = BoxOf(doc[2], 9).x + 504 - 6

====
